---- MODULE Spec2Model ----
(***************************************************************************)
(* Reading-position persistence of the eBook reader.                       *)
(*                                                                         *)
(*  - the Library Store (utils/bookStorage, listed in README.md): the whole *)
(*    collection sits under one AsyncStorage key and every mutator is an    *)
(*    async function doing getItem, modify, setItem;                        *)
(*  - the reader session (app/reader/[id].tsx, BookReader, and its twin     *)
(*    components/reader/ReaderContent.tsx): handleLocationChange, goBack    *)
(*    and the cleanup of the "save the final position" effect.              *)
(*                                                                         *)
(* JavaScript runs the handlers on one thread: a handler runs to its next   *)
(* await without interleaving, so an action is one such run.  A store call  *)
(* has two suspension points (await getItem, await setItem), hence two      *)
(* steps.                                                                   *)
(***************************************************************************)
EXTENDS Integers, Sequences, FiniteSets, TLC

\* ------------------------------------------------------------------ bounds
MaxClientCalls == 2  \* store calls issued by the clients of SpecStore
MaxCalls == 2        \* store calls issued by one reader session
MaxObs == 3          \* location observations handled in one session
MaxSpine == 2        \* documents in the spine of a book given to the resolver
MaxTimers == 3        \* setInterval calls of the auto page turn in a session

\* ------------------------------------------------------------------ values
Undef == 0 - 1       \* "undefined" for an optional number of a snapshot

BookIds == {"A", "B"}            \* ids of the records of the library
AnyIds == BookIds \cup {"X"}     \* "X" matches no record

NoBooks == [b \in {} |-> 0]

\* BookMetadata, the fields the reading position and the categories touch
BookMetadata(progress, page, cfi, cats) ==
    [readingProgress |-> progress, currentPage |-> page, cfi |-> cfi,
     categories |-> cats]

\* addBookToLibrary: progress fields zeroed at import
NewBook == BookMetadata(0, 0, "", "none")

\* filePath and coverPath of the record id, set at import and never changed;
\* book "B" was imported without a cover (coverPath "", here <<>>)
FilePath(id) == <<"books", id>>
CoverPath(id) == IF id = "B" THEN <<>> ELSE <<"covers", id>>

\* the files of the imported books
AllFiles == {FilePath(b) : b \in BookIds} \cup ({CoverPath(b) : b \in BookIds} \ {<<>>})

\* ------------------------------------------------------- location snapshots
\* An href is the sequence of its characters, so that toLowerCase and includes
\* are computed and not assumed.
ToLowerCase(str) ==
    [i \in DOMAIN str |->
        CASE str[i] = "T" -> "t" [] str[i] = "O" -> "o" [] str[i] = "C" -> "c"
          [] OTHER -> str[i]]

\* String.prototype.includes
Includes(str, sub) ==
    \E i \in 0..(Len(str) - Len(sub)) : SubSeq(str, i + 1, i + Len(sub)) = sub

HrefChapter == <<"c", "h", "1">>
HrefToc == <<"T", "O", "C">>
HrefContents == <<"c", "o", "n", "t", "e", "n", "t", "s">>

\* What getCurrentLocation() returns. percentage is in thousandths (0.304 is
\* 304); an absent optional number is Undef, an absent string is "" or <<>>.
Location(endCfi, startCfi, href, percentage, index, location, page, total) ==
    [some |-> TRUE, endCfi |-> endCfi, startCfi |-> startCfi, href |-> href,
     percentage |-> percentage, index |-> index, location |-> location,
     page |-> page, total |-> total]

NullLocation ==
    [some |-> FALSE, endCfi |-> "", startCfi |-> "", href |-> <<>>,
     percentage |-> Undef, index |-> Undef, location |-> Undef,
     page |-> Undef, total |-> Undef]

\* location.end?.cfi || location.start?.cfi
Cfi(loc) == IF loc.endCfi # "" THEN loc.endCfi ELSE loc.startCfi

\* href && (href.toLowerCase().includes("toc") || ...includes("contents"))
isTOC(loc) ==
    /\ loc.href # <<>>
    /\ \/ Includes(ToLowerCase(loc.href), <<"t", "o", "c">>)
       \/ Includes(ToLowerCase(loc.href), HrefContents)

\* location.end?.index || 0
PageOf(loc) == IF loc.index = Undef THEN 0 ELSE loc.index

\* the snapshots the engine produces in the model
Snapshots ==
    { Location("", "cfi1", HrefChapter, 296, 1, Undef, 3, 10),
      Location("cfi2", "cfi1", HrefChapter, 504, 2, Undef, 5, 10),
      Location("cfiT", "", HrefToc, 0, 3, Undef, 1, 1),
      Location("cfi3", "", HrefChapter, Undef, 3, Undef, 1, 3),
      Location("", "", HrefChapter, 700, 3, Undef, 7, 10),
      Location("cfi4", "", HrefChapter, 1200, 4, Undef, 7, 10) }

\* ------------------------------------------------------------------ state
VARIABLES
    bookLibrary,          \* AsyncStorage["bookLibrary"]: [present, books]
    fileSystem,           \* the paths that exist under FileSystem.documentDirectory
    calls,                \* the store calls issued so far, each with its position
    variant,              \* which reader runs: "screen" (app/reader/[id].tsx)
                          \* or "content" (components/reader/ReaderContent.tsx)
    bookId,               \* the route parameter id of the current render
    sessionState,         \* "None", "Loading", "Active", "NoBook" (bookPath
                          \* null, nothing loading), "Error", "Unmounted"
    ready,                \* handleReady has run (onReady fires once per mount)
    readingProgress,      \* useState(0)
    totalBookLocations,   \* useState(0)
    progressUpdatedRef,   \* useRef(false)
    latestLocationRef,    \* useRef(null)
    savingInProgressRef,  \* useRef(false)
    lastSavedProgressRef, \* useRef(0)
    lastLocationRef,      \* useRef(""), ReaderContent only
    backPressed,          \* goBack has run: router.back() is under way
    lastObs,              \* history: the latest observation handled and its fate
    lastAccepted,         \* history: the latest observation that was accepted
    rendition,            \* key.current?.rendition: [present, spine], the spine
                          \* being the hrefs of rendition.book.spine in order
    tocData,              \* useState([]): the sections of the table of contents
    hasAutoNavigatedRef,  \* useRef(false)
    restore,              \* the timers handleReady starts to restore the position
    goToLog,              \* history: the goToLocation calls of the restore and
                          \* of the skip past the contents page
    lastJump,             \* history: the latest navigateToTocSection call
    currentLocation,      \* what getCurrentLocation() returns, in the
                          \* specifications that follow the engine's location
                          \* (in the others the handlers draw it)
    intervalId,           \* the 5 s re-check interval is running (ReaderContent)
    autoPage,             \* the auto page turn of app/reader/[id].tsx: its state,
                          \* its timers, the settings panel and the stored
                          \* preferences (see NoAutoPage)
    hero                  \* what BookHero of the book details screen shows

storeVars == <<bookLibrary, fileSystem, calls>>
refVars == <<readingProgress, totalBookLocations, progressUpdatedRef,
             latestLocationRef, lastSavedProgressRef, lastLocationRef>>
navVars == <<rendition, tocData, hasAutoNavigatedRef, restore, goToLog, lastJump>>
timerVars == <<currentLocation, intervalId, autoPage, hero>>
sessionVars == <<variant, bookId, navVars, timerVars, sessionState, ready, refVars,
                 savingInProgressRef, backPressed, lastObs, lastAccepted>>
vars == <<storeVars, sessionVars>>

\* ----------------------------------------------------- navigation: values
\* An argument of goToLocation: kind "cfi" (a stored or given CFI string, in
\* cfi), "synth" (`epubcfi(/6/${n}!)`, n in index), "asis" (an href that
\* already holds "epubcfi(", in href), "raw" (an href or id, in href), "null".
Target(kind, cfi, index, href) ==
    [kind |-> kind, cfi |-> cfi, index |-> index, href |-> href]

NoTarget == Target("null", "", Undef, <<>>)

\* a section of the table of contents; an absent string is "" or <<>>
Section(cfi, href, id, subitems) ==
    [some |-> TRUE, cfi |-> cfi, href |-> href, id |-> id, subitems |-> subitems]

NoSection == [some |-> FALSE, cfi |-> "", href |-> <<>>, id |-> <<>>, subitems |-> <<>>]

\* the timers of handleReady: pc is "none", "first" (the 500 ms timer is
\* pending), "recheck" (the 300 ms one), "second" (the 1000 ms one), "done";
\* cfi and progress are bookMeta's, seen is the readingProgress of the render
\* that created handleReady; obsAt is history (lastObs.n at the last attempt)
Restore(pc, cfi, progress, seen, obsAt) ==
    [pc |-> pc, cfi |-> cfi, progress |-> progress, seen |-> seen, obsAt |-> obsAt]

NoRestore == Restore("none", "", 0, 0, 0)

\* a goToLocation call: who made it, its argument, whether it threw
GoTo(by, target, threw) == [by |-> by, target |-> target, threw |-> threw]

\* a navigateToTocSection call: its section, the arguments of the goToLocation
\* calls it made, whether goToLocation threw, and what it returned
Jump(section, targets, threw, returned) ==
    [section |-> section, targets |-> targets, threw |-> threw,
     returned |-> returned]

NoJump == Jump(NoSection, <<>>, FALSE, FALSE)

\* reader preferences as stored: autoPageTurn is "undefined", "true" or
\* "false"; autoPageInterval is 0 when undefined
Preferences(autoPageTurn, autoPageInterval) ==
    [autoPageTurn |-> autoPageTurn, autoPageInterval |-> autoPageInterval]

NoPreferences == Preferences("undefined", 0)

DefaultInterval == 10000     \* useState<number>(10000)

\* the auto page turn at mount. autoPageTurnEnabled, autoPageInterval and
\* autoPageTimerRef (0: null, k: the k-th timer) are the reader's; timers are
\* the setInterval calls made so far, each with its interval and whether it
\* still runs; panelAutoPageTurn and panelAutoPageInterval are the state of the
\* settings panel; stored is what saveReaderPreferences wrote; pc and
\* preferences are handleReady around its await of getReaderPreferences
NoAutoPage ==
    [autoPageTurnEnabled |-> FALSE, autoPageInterval |-> DefaultInterval,
     autoPageTimerRef |-> 0, timers |-> <<>>,
     panelAutoPageTurn |-> FALSE, panelAutoPageInterval |-> DefaultInterval,
     stored |-> NoPreferences, pc |-> "none", preferences |-> NoPreferences]

\* BookHero not rendered
NoHero ==
    [shown |-> FALSE, bookId |-> "", progressPercent |-> 0, isCompleted |-> FALSE,
     hasStarted |-> FALSE]

\* the spine and the table of contents of the book the reader session opens
BookRendition == [present |-> TRUE, spine |-> <<HrefToc, HrefChapter>>]
TocLists ==
    { <<Section("", HrefToc, <<>>, <<>>)>>,
      <<Section("", HrefToc, <<>>, <<>>), Section("", HrefChapter, <<>>, <<>>)>>,
      <<Section("", HrefToc, <<>>, <<>>), Section("cfi1", HrefChapter, <<>>, <<>>)>> }

\* ------------------------------------------------------------ Library Store
\* A call of an exported mutator. pc: "getItem" (awaiting the read),
\* "deleteFile" and "deleteCover" (deleteBook awaiting the file system),
\* "setItem" (read done, modified copy in lib, awaiting the write),
\* "done" (promise resolved), "rejected" (promise rejected).
Call(op, origin, id, progress, page, cfi, cats) ==
    [op |-> op, origin |-> origin, id |-> id, progress |-> progress,
     page |-> page, cfi |-> cfi, cats |-> cats,
     pc |-> "getItem", lib |-> NoBooks, wrote |-> FALSE, toc |-> FALSE]

\* a call of updateReadingProgress made by the reader for the snapshot loc
\* (toc is history: the snapshot was front matter)
PositionCall(origin, id, progress, loc) ==
    [Call("position", origin, id, progress, PageOf(loc), Cfi(loc), "none")
       EXCEPT !.toc = isTOC(loc)]

Pending(c) == c.pc \in {"getItem", "deleteFile", "deleteCover", "setItem"}

\* updateReadingProgress, from its entry to the await of setItem
updateReadingProgress_read(c, lib) ==
    IF ~lib.present THEN [c EXCEPT !.pc = "done"]
    ELSE IF c.id \notin DOMAIN lib.books
         \* findIndex gives -1 and books[-1].currentPage throws
         THEN [c EXCEPT !.pc = "rejected"]
    ELSE IF lib.books[c.id].currentPage < c.page
         THEN [c EXCEPT !.pc = "setItem",
                        !.lib = [lib.books EXCEPT ![c.id] =
                                   [@ EXCEPT !.readingProgress = c.progress,
                                             !.currentPage = c.page,
                                             !.cfi = c.cfi]]]
    ELSE [c EXCEPT !.pc = "done"]

\* updateBookCategories, from its entry to the await of setItem
updateBookCategories_read(c, lib) ==
    IF ~lib.present THEN [c EXCEPT !.pc = "done"]
    ELSE IF c.id \in DOMAIN lib.books
         THEN [c EXCEPT !.pc = "setItem",
                        !.lib = [lib.books EXCEPT ![c.id] =
                                   [@ EXCEPT !.categories = c.cats]]]
    ELSE [c EXCEPT !.pc = "done"]

\* deleteBook, from its entry to the first await on the file system
deleteBook_read(c, lib) ==
    IF ~lib.present THEN [c EXCEPT !.pc = "done"]
    ELSE IF c.id \notin DOMAIN lib.books THEN [c EXCEPT !.pc = "done"]
    ELSE [c EXCEPT !.pc = "deleteFile", !.lib = lib.books]

\* Settled with the .then only: a rejected call leaves savingInProgressRef set
Settled_ThenOnly(before, after) ==
    /\ savingInProgressRef' =
         IF before.origin = "handler" /\ after.pc = "done"
         THEN FALSE ELSE savingInProgressRef
    /\ UNCHANGED <<variant, bookId, navVars, timerVars, sessionState, ready, refVars, backPressed, lastObs,
                   lastAccepted>>

\* the .then and .catch of the call handleLocationChange started: both reset
\* savingInProgressRef once the promise settles
Settled(before, after) ==
    /\ savingInProgressRef' =
         IF before.origin = "handler" /\ ~Pending(after)
         THEN FALSE ELSE savingInProgressRef
    /\ UNCHANGED <<variant, bookId, navVars, timerVars, sessionState, ready, refVars, backPressed, lastObs,
                   lastAccepted>>

\* await AsyncStorage.getItem("bookLibrary") resolves for call i
GetItem(i) ==
    /\ i \in DOMAIN calls
    /\ calls[i].pc = "getItem"
    /\ calls' = [calls EXCEPT ![i] =
                   CASE calls[i].op = "position"
                          -> updateReadingProgress_read(calls[i], bookLibrary)
                     [] calls[i].op = "categories"
                          -> updateBookCategories_read(calls[i], bookLibrary)
                     [] calls[i].op = "delete"
                          -> deleteBook_read(calls[i], bookLibrary)]
    /\ UNCHANGED <<bookLibrary, fileSystem>>
    /\ Settled(calls[i], calls'[i])

\* await AsyncStorage.setItem("bookLibrary", JSON.stringify(library)) for call i
SetItem(i) ==
    /\ i \in DOMAIN calls
    /\ calls[i].pc = "setItem"
    /\ bookLibrary' = [present |-> TRUE, books |-> calls[i].lib]
    /\ UNCHANGED fileSystem
    /\ calls' = [calls EXCEPT ![i] =
                   [@ EXCEPT !.pc = "done", !.wrote = TRUE, !.lib = NoBooks]]
    /\ Settled(calls[i], calls'[i])

\* positions <<progress, page, cfi>> the clients of SpecStore save
ClientPositions == {<<10, 1, "cfi1">>, <<20, 2, "cfi2">>}

\* some caller invokes the exported updateReadingProgress
ClientUpdateReadingProgress ==
    /\ Len(calls) < MaxClientCalls
    /\ \E id \in AnyIds, p \in ClientPositions :
         calls' = Append(calls, Call("position", "client", id, p[1], p[2], p[3], "none"))
    /\ UNCHANGED <<bookLibrary, fileSystem, sessionVars>>

\* the book details screen saves the categories picked by the user
ClientUpdateBookCategories ==
    /\ Len(calls) < MaxClientCalls
    /\ \E id \in AnyIds, cats \in {"fiction", "science"} :
         calls' = Append(calls, Call("categories", "details", id, 0, 0, "", cats))
    /\ UNCHANGED <<bookLibrary, fileSystem, sessionVars>>

\* ------------------------------------------------------------ reader session
BookId == "A"             \* the route parameter id at mount: the book loadBook opens
TotalLocations == 4       \* totalLocations the engine reports once it has them

\* Math.round(percentage * 100), percentage in thousandths
RoundPercentage(pm) == (pm + 5) \div 10

\* Math.round((a / b) * 100) for a >= 0, b > 0
RoundRatio(a, b) == (200 * a + b) \div (2 * b)

\* location.end?.displayed?.page && location.end?.displayed?.total
Displayed(loc) ==
    loc.page # Undef /\ loc.page # 0 /\ loc.total # Undef /\ loc.total # 0

\* LocationProgress with end.location tried before end.index
LocationProgress_LocationFirst(loc, total) ==
    IF loc.percentage # Undef THEN RoundPercentage(loc.percentage)
    ELSE IF loc.location # Undef /\ total > 0 THEN RoundRatio(loc.location, total)
    ELSE IF loc.index # Undef /\ total > 0 THEN RoundRatio(loc.index, total)
    ELSE IF Displayed(loc) /\ loc.total > 4 THEN RoundRatio(loc.page, loc.total)
    ELSE 0

\* progressPercent as handleLocationChange computes it
LocationProgress(loc, total) ==
    IF loc.percentage # Undef THEN RoundPercentage(loc.percentage)
    ELSE IF loc.index # Undef /\ total > 0 THEN RoundRatio(loc.index, total)
    ELSE IF loc.location # Undef /\ total > 0 THEN RoundRatio(loc.location, total)
    ELSE IF Displayed(loc) /\ loc.total > 4 THEN RoundRatio(loc.page, loc.total)
    ELSE 0

\* progressPercent as the cleanup of the final-position effect computes it
ExitProgress(loc, total) ==
    IF loc.percentage # Undef THEN RoundPercentage(loc.percentage)
    ELSE IF loc.index # Undef /\ total > 0 THEN RoundRatio(loc.index, total)
    ELSE IF Displayed(loc) /\ loc.total > 4 THEN RoundRatio(loc.page, loc.total)
    ELSE 0

\* progressPercent as goBack computes it
BackProgress(loc, progress) ==
    IF loc.percentage # Undef THEN RoundPercentage(loc.percentage) ELSE progress

Abs(x) == IF x < 0 THEN 0 - x ELSE x

\* the n-th observation of the session: its locator, the progress computed for
\* it (0 when none was), whether it was front matter, was accepted, started a
\* save, or threw
Observed(n, cfi, progress, toc, accepted, wrote, threw) ==
    [n |-> n, cfi |-> cfi, progress |-> progress, toc |-> toc,
     accepted |-> accepted, wrote |-> wrote, threw |-> threw]

\* the accepted observation n (0: none yet)
Accepted(n, cfi, progress) == [n |-> n, cfi |-> cfi, progress |-> progress]

\* getMetaFromAsyncStorage(bookId) || the zeroed fields when it gives null
StoredMeta ==
    IF bookLibrary.present /\ bookId \in DOMAIN bookLibrary.books
    THEN bookLibrary.books[bookId] ELSE NewBook

\* loadBook: getBookFile, then the stored progress, then setLoading(false);
\* the Reader is rendered only after that, and in ReaderContent the effect on
\* [loading, bookPath, handleLocationChange] starts the re-check interval
loadBook ==
    /\ sessionState = "Loading"
    /\ IF bookLibrary.present /\ bookId \in DOMAIN bookLibrary.books
       THEN /\ sessionState' = "Active"
            /\ intervalId' = (variant = "content")
            /\ IF StoredMeta.readingProgress > 0
               THEN /\ readingProgress' = StoredMeta.readingProgress
                    /\ progressUpdatedRef' = TRUE
               ELSE UNCHANGED <<readingProgress, progressUpdatedRef>>
       ELSE /\ sessionState' = "Error"
            /\ UNCHANGED <<readingProgress, progressUpdatedRef, intervalId>>
    /\ UNCHANGED <<storeVars, variant, bookId, navVars, currentLocation, ready, totalBookLocations, latestLocationRef,
                   savingInProgressRef, lastSavedProgressRef, lastLocationRef,
                   backPressed, lastObs, lastAccepted, autoPage, hero>>

\* handleReady: the stored progress, then the 500 ms timer that restores the
\* stored location when bookMeta.cfi is not empty
handleReady ==
    /\ sessionState = "Active"
    /\ ~ready
    /\ ready' = TRUE
    /\ restore' = IF StoredMeta.cfi # ""
                  THEN Restore("first", StoredMeta.cfi, StoredMeta.readingProgress,
                               readingProgress, 0)
                  ELSE restore
    /\ IF StoredMeta.readingProgress > 0
       THEN /\ readingProgress' = StoredMeta.readingProgress
            /\ lastSavedProgressRef' = StoredMeta.readingProgress
            /\ progressUpdatedRef' = TRUE
       ELSE UNCHANGED <<readingProgress, lastSavedProgressRef, progressUpdatedRef>>
    /\ UNCHANGED <<storeVars, variant, bookId, sessionState, totalBookLocations,
                   latestLocationRef, savingInProgressRef, lastLocationRef,
                   backPressed, lastObs, lastAccepted, rendition, tocData,
                   hasAutoNavigatedRef, goToLog, lastJump,
                   timerVars>>

\* AcceptAndSave without its guard against a reset to zero
AcceptAndSave_NoZeroGuard(loc, progress, threshold) ==
    LET cfi == Cfi(loc)
        rejected == \/ progress < 0 \/ progress > 100
                    \/ threshold
        save == ~rejected /\ ~savingInProgressRef
    IN  /\ save => Len(calls) < MaxCalls
        /\ IF rejected
           THEN UNCHANGED <<readingProgress, progressUpdatedRef>>
           ELSE /\ readingProgress' = progress
                /\ progressUpdatedRef' = TRUE
        /\ IF save
           THEN /\ savingInProgressRef' = TRUE
                /\ lastSavedProgressRef' = progress
                /\ calls' = Append(calls,
                                   PositionCall("handler", bookId, progress, loc))
           ELSE UNCHANGED <<savingInProgressRef, lastSavedProgressRef, calls>>
        /\ lastObs' = Observed(lastObs.n + 1, cfi, progress, FALSE, ~rejected, save,
                               FALSE)
        /\ lastAccepted' = IF rejected THEN lastAccepted
                           ELSE Accepted(lastObs.n + 1, cfi, progress)

\* the tail of handleLocationChange, the same in both readers: the range check,
\* the zero guard, setReadingProgress and the save
AcceptAndSave(loc, progress, threshold) ==
    LET cfi == Cfi(loc)
        rejected == \/ progress < 0 \/ progress > 100
                    \/ (progress = 0 /\ readingProgress > 0)
                    \/ threshold
        save == ~rejected /\ ~savingInProgressRef
    IN  /\ save => Len(calls) < MaxCalls
        /\ IF rejected
           THEN UNCHANGED <<readingProgress, progressUpdatedRef>>
           ELSE /\ readingProgress' = progress
                /\ progressUpdatedRef' = TRUE
        /\ IF save
           THEN /\ savingInProgressRef' = TRUE
                /\ lastSavedProgressRef' = progress
                /\ calls' = Append(calls,
                                   PositionCall("handler", bookId, progress, loc))
           ELSE UNCHANGED <<savingInProgressRef, lastSavedProgressRef, calls>>
        /\ lastObs' = Observed(lastObs.n + 1, cfi, progress, FALSE, ~rejected, save,
                               FALSE)
        /\ lastAccepted' = IF rejected THEN lastAccepted
                           ELSE Accepted(lastObs.n + 1, cfi, progress)

\* an observation that ends at one of the early returns
Skipped(loc) ==
    /\ lastObs' = Observed(lastObs.n + 1, Cfi(loc), 0, isTOC(loc), FALSE, FALSE,
                           FALSE)
    /\ UNCHANGED <<lastAccepted, readingProgress, progressUpdatedRef, savingInProgressRef,
                   lastSavedProgressRef, calls>>

\* handleLocationChange of app/reader/[id].tsx on the snapshot loc
handleLocationChange(loc) ==
    /\ variant = "screen"
    /\ sessionState = "Active"
    /\ lastObs.n < MaxObs
    /\ latestLocationRef' = loc
    /\ IF Cfi(loc) = "" \/ isTOC(loc)
       THEN Skipped(loc)
       ELSE LET progress == LocationProgress(loc, totalBookLocations)
            IN AcceptAndSave(loc, progress,
                   Abs(progress - lastSavedProgressRef) < 1 /\ progressUpdatedRef)
    /\ UNCHANGED <<bookLibrary, fileSystem, variant, bookId, navVars, timerVars, sessionState, ready, totalBookLocations,
                   lastLocationRef, backPressed>>

\* handleLocationChange of ReaderContent.tsx on the snapshot loc
handleLocationChangeContent(loc) ==
    /\ variant = "content"
    /\ sessionState = "Active"
    /\ lastObs.n < MaxObs
    /\ IF Cfi(loc) = "" \/ lastLocationRef = Cfi(loc)
       THEN /\ Skipped(loc)
            /\ UNCHANGED <<lastLocationRef, latestLocationRef>>
       ELSE /\ lastLocationRef' = Cfi(loc)
            /\ latestLocationRef' = loc
            /\ IF isTOC(loc)
               THEN Skipped(loc)
               ELSE AcceptAndSave(loc, LocationProgress(loc, totalBookLocations),
                                  FALSE)
    /\ UNCHANGED <<bookLibrary, fileSystem, variant, bookId, navVars, timerVars, sessionState, ready, totalBookLocations,
                   backPressed>>

\* handleLocationChange when getCurrentLocation() throws: the catch block
handleLocationChangeThrows ==
    /\ sessionState = "Active"
    /\ lastObs.n < MaxObs
    /\ savingInProgressRef' = FALSE
    /\ lastObs' = Observed(lastObs.n + 1, "", 0, FALSE, FALSE, FALSE, TRUE)
    /\ UNCHANGED <<storeVars, variant, bookId, navVars, timerVars, sessionState, ready, refVars, backPressed,
                   lastAccepted>>

\* the calls goBack makes: none or one updateReadingProgress
BackCalls(loc, progress) ==
    IF loc.some /\ Cfi(loc) # ""
    THEN <<PositionCall("goBack", bookId, BackProgress(loc, progress), loc)>>
    ELSE <<>>

\* goBack: save latestLocationRef, then router.back()
goBack ==
    /\ sessionState \in {"Active", "NoBook"}
    /\ ~backPressed
    /\ backPressed' = TRUE
    /\ calls' = calls \o BackCalls(latestLocationRef, readingProgress)
    /\ Len(calls') <= MaxCalls
    /\ UNCHANGED <<bookLibrary, fileSystem, variant, bookId, navVars, timerVars, sessionState, ready, refVars,
                   savingInProgressRef, lastObs, lastAccepted>>

\* the calls the cleanup of the final-position effect makes, total being the
\* totalBookLocations of the render that created the cleanup; origin tells the
\* cleanup at unmount ("flush") from the one before a re-run ("rerun")
ExitCalls(origin, loc, total) ==
    IF loc.some /\ Cfi(loc) # ""
    THEN <<PositionCall(origin, bookId, ExitProgress(loc, total), loc)>>
    ELSE <<>>

\* the effect that stores totalLocations; totalBookLocations is a dependency of
\* the final-position effect, whose cleanup (of the previous render) then runs
setTotalBookLocations ==
    /\ sessionState = "Active"
    /\ totalBookLocations = 0
    /\ totalBookLocations' = TotalLocations
    /\ calls' = calls \o ExitCalls("rerun", latestLocationRef, totalBookLocations)
    /\ Len(calls') <= MaxCalls
    /\ UNCHANGED <<bookLibrary, fileSystem, variant, bookId, navVars, timerVars, sessionState, ready, readingProgress,
                   progressUpdatedRef, latestLocationRef, savingInProgressRef,
                   lastSavedProgressRef, lastLocationRef, backPressed, lastObs,
                   lastAccepted>>

\* the component unmounts: the cleanups of loadBook's effect and of the
\* final-position effect run, and the component's state and refs are released
Unmount ==
    /\ sessionState \in {"Loading", "Active", "NoBook", "Error"}
    /\ sessionState' = "Unmounted"
    /\ calls' = calls \o ExitCalls("flush", latestLocationRef, totalBookLocations)
    /\ Len(calls') <= MaxCalls
    /\ ready' = FALSE
    /\ readingProgress' = 0
    /\ totalBookLocations' = 0
    /\ progressUpdatedRef' = FALSE
    /\ latestLocationRef' = NullLocation
    /\ savingInProgressRef' = FALSE
    /\ lastSavedProgressRef' = 0
    /\ lastLocationRef' = ""
    /\ backPressed' = FALSE
    /\ lastObs' = Observed(0, "", 0, FALSE, FALSE, FALSE, FALSE)
    /\ tocData' = <<>>
    /\ hasAutoNavigatedRef' = FALSE
    /\ intervalId' = FALSE
    /\ UNCHANGED <<bookLibrary, fileSystem, variant, bookId, lastAccepted, rendition,
                   restore, goToLog, lastJump, currentLocation, autoPage, hero>>

\* the reader's state at mount: the useState and useRef initial values
InitReader(v, st) ==
    /\ variant = v
    /\ bookId = BookId
    /\ sessionState = st
    /\ ready = FALSE
    /\ readingProgress = 0
    /\ totalBookLocations = 0
    /\ progressUpdatedRef = FALSE
    /\ latestLocationRef = NullLocation
    /\ savingInProgressRef = FALSE
    /\ lastSavedProgressRef = 0
    /\ lastLocationRef = ""
    /\ backPressed = FALSE
    /\ lastObs = Observed(0, "", 0, FALSE, FALSE, FALSE, FALSE)
    /\ lastAccepted = Accepted(0, "", 0)
    /\ tocData = <<>>
    /\ hasAutoNavigatedRef = FALSE
    /\ restore = NoRestore
    /\ goToLog = <<>>
    /\ lastJump = NoJump
    /\ currentLocation = NullLocation
    /\ intervalId = (v = "content" /\ st = "Active")
    /\ hero = NoHero

\* the reader at mount in a session that stored no reader preferences
InitSession(v, st) ==
    /\ InitReader(v, st)
    /\ autoPage = NoAutoPage

InitStore ==
    /\ bookLibrary \in {[present |-> FALSE, books |-> NoBooks],
                        [present |-> TRUE, books |-> [b \in BookIds |-> NewBook]]}
    /\ fileSystem = IF bookLibrary.present THEN AllFiles ELSE {}
    /\ rendition = BookRendition
    /\ calls = <<>>
    /\ InitSession("screen", "None")

NextStore ==
    \/ ClientUpdateReadingProgress
    \/ ClientUpdateBookCategories
    \/ \E i \in 1..MaxClientCalls : GetItem(i)
    \/ \E i \in 1..MaxClientCalls : SetItem(i)

SpecStore == InitStore /\ [][NextStore]_vars

\* deleteBook, "Delete the book file": getInfoAsync and deleteAsync inside a
\* try whose catch only logs; ok is whether they went through
DeleteFile(i) ==
    /\ i \in DOMAIN calls
    /\ calls[i].pc = "deleteFile"
    /\ \E ok \in BOOLEAN :
         fileSystem' = IF ok THEN fileSystem \ {FilePath(calls[i].id)} ELSE fileSystem
    /\ calls' = [calls EXCEPT ![i] = [@ EXCEPT !.pc = "deleteCover"]]
    /\ UNCHANGED <<bookLibrary, sessionVars>>

\* deleteBook, "Delete the cover image" (skipped when coverPath is empty), then
\* library.books.splice(bookIndex, 1) on the copy read at entry
DeleteCover(i) ==
    /\ i \in DOMAIN calls
    /\ calls[i].pc = "deleteCover"
    /\ \E ok \in BOOLEAN :
         fileSystem' = IF ok /\ CoverPath(calls[i].id) # <<>>
                       THEN fileSystem \ {CoverPath(calls[i].id)} ELSE fileSystem
    /\ calls' = [calls EXCEPT ![i] =
                   [@ EXCEPT !.pc = "setItem",
                             !.lib = [b \in DOMAIN @ \ {calls[i].id} |-> @[b]]]]
    /\ UNCHANGED <<bookLibrary, sessionVars>>

\* the book details screen deletes the book
ClientDeleteBook ==
    /\ Len(calls) < MaxClientCalls
    /\ \E id \in AnyIds :
         calls' = Append(calls, Call("delete", "details", id, 0, 0, "", "none"))
    /\ UNCHANGED <<bookLibrary, fileSystem, sessionVars>>

NextDelete ==
    \/ ClientDeleteBook
    \/ ClientUpdateReadingProgress
    \/ ClientUpdateBookCategories
    \/ \E i \in 1..MaxClientCalls : GetItem(i)
    \/ \E i \in 1..MaxClientCalls : DeleteFile(i)
    \/ \E i \in 1..MaxClientCalls : DeleteCover(i)
    \/ \E i \in 1..MaxClientCalls : SetItem(i)

\* the store with deleteBook among its callers
SpecDelete == InitStore /\ [][NextDelete]_vars

\* a record of the book as an earlier session left it
ReadBook == BookMetadata(40, 2, "cfi2", "none")

Init ==
    /\ bookLibrary \in {[present |-> TRUE,
                         books |-> [b \in BookIds |-> IF b = BookId THEN r ELSE NewBook]] :
                        r \in {NewBook, ReadBook}}
    /\ fileSystem = AllFiles
    /\ rendition = BookRendition
    /\ calls = <<>>
    /\ \E v \in {"screen", "content"} : InitSession(v, "Loading")

Next ==
    \/ loadBook
    \/ handleReady
    \/ \E loc \in Snapshots : handleLocationChange(loc)
    \/ \E loc \in Snapshots : handleLocationChangeContent(loc)
    \/ handleLocationChangeThrows
    \/ goBack
    \/ setTotalBookLocations
    \/ Unmount
    \/ \E i \in 1..MaxCalls : GetItem(i)
    \/ \E i \in 1..MaxCalls : SetItem(i)

Spec == Init /\ [][Next]_vars

\* the route parameter id changes while the component stays mounted. The
\* effects that depend on bookId re-run: the cleanup of the final-position
\* effect saves latestLocationRef under the previous id, the cleanup of
\* loadBook's effect resets progressUpdatedRef and calls setBookPath(null), and
\* loadBook returns at once because the bookPath of its render is still set.
\* The Reader is then no longer rendered; the refs keep their values.
setBookId ==
    /\ sessionState = "Active"
    /\ \E id \in BookIds \ {bookId} : bookId' = id
    /\ sessionState' = "NoBook"
    /\ progressUpdatedRef' = FALSE
    /\ calls' = calls \o ExitCalls("rerun", latestLocationRef, totalBookLocations)
    /\ Len(calls') <= MaxCalls
    /\ intervalId' = FALSE
    /\ UNCHANGED <<bookLibrary, fileSystem, variant, navVars, currentLocation, ready, readingProgress,
                   totalBookLocations, latestLocationRef, savingInProgressRef, lastSavedProgressRef,
                   lastLocationRef, backPressed, lastObs, lastAccepted, autoPage, hero>>

NextRoute ==
    \/ Next
    \/ setBookId

\* the reader when the route parameter may change under a mounted component
SpecRoute == Init /\ [][NextRoute]_vars

\* ------------------------------------------------------ navigation: resolver
\* A reference is the sequence of its characters; the marker "epubcfi(" counts
\* as one character of it.
\* href?.startsWith("/") ? href.substring(1) : href
CleanHref(href) == IF href # <<>> /\ Head(href) = "/" THEN Tail(href) ELSE href

\* the positions (from 1) of the spine items that the predicate given to
\* spine.find accepts: itemUrl === cleanHref || cleanHref.includes(itemUrl)
SpineMatches(spine, cleanHref) ==
    {k \in DOMAIN spine : spine[k] = cleanHref \/ Includes(cleanHref, spine[k])}

\* SpineIndex with the last matching item in place of the first
SpineIndex_Last(spine, cleanHref) ==
    LET m == SpineMatches(spine, cleanHref)
    IN  IF m = {} THEN Undef ELSE (CHOOSE k \in m : \A l \in m : l <= k) - 1

\* spine.indexOf(spine.find(...)): the index (from 0) of the first item that
\* matches, Undef when find gives undefined
SpineIndex(spine, cleanHref) ==
    LET m == SpineMatches(spine, cleanHref)
    IN  IF m = {} THEN Undef ELSE (CHOOSE k \in m : \A l \in m : k <= l) - 1

\* getCfiFromHref(href) for a non-empty href
getCfiFromHref(href) ==
    IF Includes(href, <<"epubcfi(">>)
    THEN Target("asis", "", Undef, href)
    ELSE IF rendition.present /\ SpineIndex(rendition.spine, CleanHref(href)) # Undef
         THEN Target("synth", "", SpineIndex(rendition.spine, CleanHref(href)) * 2 + 2,
                     <<>>)
         ELSE NoTarget

\* JumpTarget with the raw reference tried before the first subitem
JumpTarget_RawFirst(section) ==
    LET sub == IF section.subitems # <<>> THEN section.subitems[1] ELSE NoSection
    IN  IF section.cfi # "" THEN Target("cfi", section.cfi, Undef, <<>>)
        ELSE IF section.href # <<>> /\ getCfiFromHref(section.href) # NoTarget
             THEN getCfiFromHref(section.href)
        ELSE IF section.href # <<>> THEN Target("raw", "", Undef, CleanHref(section.href))
        ELSE IF sub.some /\ sub.cfi # "" THEN Target("cfi", sub.cfi, Undef, <<>>)
        ELSE IF sub.some /\ sub.href # <<>> /\ getCfiFromHref(sub.href) # NoTarget
             THEN getCfiFromHref(sub.href)
        ELSE IF section.id # <<>> THEN Target("raw", "", Undef, CleanHref(section.id))
        ELSE NoTarget

\* the argument of the goToLocation call navigateToTocSection makes for a
\* section, NoTarget when it makes none
JumpTarget(section) ==
    LET sub == IF section.subitems # <<>> THEN section.subitems[1] ELSE NoSection
    IN  IF section.cfi # "" THEN Target("cfi", section.cfi, Undef, <<>>)
        ELSE IF section.href # <<>> /\ getCfiFromHref(section.href) # NoTarget
             THEN getCfiFromHref(section.href)
        ELSE IF sub.some /\ sub.cfi # "" THEN Target("cfi", sub.cfi, Undef, <<>>)
        ELSE IF sub.some /\ sub.href # <<>> /\ getCfiFromHref(sub.href) # NoTarget
             THEN getCfiFromHref(sub.href)
        ELSE IF section.href # <<>> THEN Target("raw", "", Undef, CleanHref(section.href))
        ELSE IF section.id # <<>> THEN Target("raw", "", Undef, CleanHref(section.id))
        ELSE NoTarget

\* navigateToTocSection(section): false for no section; else at most one
\* goToLocation inside the try, true after it, false when it threw
navigateToTocSection(section) ==
    /\ sessionState = "Active"
    /\ IF ~section.some
       THEN lastJump' = Jump(section, <<>>, FALSE, FALSE)
       ELSE IF JumpTarget(section) = NoTarget
       THEN lastJump' = Jump(section, <<>>, FALSE, TRUE)
       ELSE \E threw \in BOOLEAN :
              lastJump' = Jump(section, <<JumpTarget(section)>>, threw, ~threw)
    /\ UNCHANGED <<storeVars, variant, bookId, sessionState, ready, refVars,
                   savingInProgressRef, backPressed, lastObs, lastAccepted,
                   rendition, tocData, hasAutoNavigatedRef, restore, goToLog,
                   timerVars>>

\* the hrefs of spine items, the spines and the engine handles of the resolver's
\* inputs: a spine may repeat an href, and one href may contain another
SpineHrefs == {<<"a">>, <<"b", "a">>, <<"b">>}
Spines == UNION {[1..n -> SpineHrefs] : n \in 0..MaxSpine}
Renditions == {[present |-> FALSE, spine |-> <<>>]}
              \cup {[present |-> TRUE, spine |-> s] : s \in Spines}

\* the table-of-contents entries given to the resolver
Subitems == {<<>>} \cup {<<Section(c, h, <<>>, <<>>)>> :
                           c \in {"", "cfiC"}, h \in {<<>>, <<"a">>}}
Sections ==
    {NoSection} \cup
    {Section(c, h, i, s) :
       c \in {"", "cfiS"},
       h \in {<<>>, <<"a">>, <<"/", "a">>, <<"b", "a">>, <<"epubcfi(", "a">>},
       i \in {<<>>, <<"/", "i">>},
       s \in Subitems}

InitResolve ==
    /\ bookLibrary = [present |-> TRUE, books |-> [b \in BookIds |-> NewBook]]
    /\ fileSystem = AllFiles
    /\ rendition \in Renditions
    /\ calls = <<>>
    /\ \E v \in {"screen", "content"} : InitSession(v, "Active")

NextResolve == \E section \in Sections : navigateToTocSection(section)

\* the resolver on every entry and every spine of the bounds
SpecResolve == InitResolve /\ [][NextResolve]_vars

\* ----------------------------------------- navigation: restore and auto-skip
\* setReadingProgress from a timer: nothing once the component is unmounted
TimerSetsProgress(p) ==
    IF sessionState # "Unmounted" /\ p > 0
    THEN readingProgress' = p
    ELSE UNCHANGED readingProgress

\* restoreFirstAttempt with the second timer started whether it threw or not
restoreFirstAttempt_AlwaysRetry ==
    /\ restore.pc = "first"
    /\ \E threw \in BOOLEAN :
         /\ goToLog' = Append(goToLog,
                GoTo("restore", Target("cfi", restore.cfi, Undef, <<>>), threw))
         /\ restore' = [restore EXCEPT !.pc = "second", !.obsAt = lastObs.n]
    /\ UNCHANGED <<storeVars, variant, bookId, sessionState, ready, refVars,
                   savingInProgressRef, backPressed, lastObs, lastAccepted,
                   rendition, tocData, hasAutoNavigatedRef, lastJump,
                   timerVars>>

\* the 500 ms timer of handleReady: goToLocation(bookMeta.cfi); then the 300 ms
\* timer is started, or the 1000 ms one when goToLocation threw
restoreFirstAttempt ==
    /\ restore.pc = "first"
    /\ \E threw \in BOOLEAN :
         /\ goToLog' = Append(goToLog,
                GoTo("restore", Target("cfi", restore.cfi, Undef, <<>>), threw))
         /\ restore' = [restore EXCEPT !.pc = IF threw THEN "second" ELSE "recheck",
                                       !.obsAt = lastObs.n]
    /\ UNCHANGED <<storeVars, variant, bookId, sessionState, ready, refVars,
                   savingInProgressRef, backPressed, lastObs, lastAccepted,
                   rendition, tocData, hasAutoNavigatedRef, lastJump,
                   timerVars>>

\* the 300 ms timer: the stored progress is applied again when the
\* readingProgress the callback closes over is 0
restoreRecheck ==
    /\ restore.pc = "recheck"
    /\ restore' = [restore EXCEPT !.pc = "done"]
    /\ TimerSetsProgress(IF restore.seen = 0 THEN restore.progress ELSE 0)
    /\ UNCHANGED <<storeVars, variant, bookId, sessionState, ready, totalBookLocations,
                   progressUpdatedRef, latestLocationRef, lastSavedProgressRef,
                   lastLocationRef, savingInProgressRef, backPressed, lastObs,
                   lastAccepted, rendition, tocData, hasAutoNavigatedRef, goToLog,
                   lastJump,
                   timerVars>>

\* the 1000 ms timer: the second goToLocation(bookMeta.cfi); the stored
\* progress is applied again as above, or whatever was seen when it threw
restoreSecondAttempt ==
    /\ restore.pc = "second"
    /\ \E threw \in BOOLEAN :
         /\ goToLog' = Append(goToLog,
                GoTo("restore", Target("cfi", restore.cfi, Undef, <<>>), threw))
         /\ TimerSetsProgress(IF threw \/ restore.seen = 0 THEN restore.progress ELSE 0)
    /\ restore' = [restore EXCEPT !.pc = "done", !.obsAt = lastObs.n]
    /\ UNCHANGED <<storeVars, variant, bookId, sessionState, ready, totalBookLocations,
                   progressUpdatedRef, latestLocationRef, lastSavedProgressRef,
                   lastLocationRef, savingInProgressRef, backPressed, lastObs,
                   lastAccepted, rendition, tocData, hasAutoNavigatedRef, lastJump,
                   timerVars>>

\* the effect that stores the table of contents once the engine gives one
setTocData(toc) ==
    /\ sessionState = "Active"
    /\ toc # <<>>
    /\ tocData' = toc
    /\ UNCHANGED <<storeVars, variant, bookId, sessionState, ready, refVars,
                   savingInProgressRef, backPressed, lastObs, lastAccepted,
                   rendition, hasAutoNavigatedRef, restore, goToLog, lastJump,
                   timerVars>>

\* tocData.find(...): the first section with an href that holds neither "toc"
\* nor "contents", NoSection when there is none
FirstChapter(toc) ==
    LET ok == {k \in DOMAIN toc :
                 /\ toc[k].href # <<>>
                 /\ ~Includes(ToLowerCase(toc[k].href), <<"t", "o", "c">>)
                 /\ ~Includes(ToLowerCase(toc[k].href), HrefContents)}
    IN  IF ok = {} THEN NoSection ELSE toc[CHOOSE k \in ok : \A l \in ok : k <= l]

\* the argument of the goToLocation call that skips to firstChapter
SkipTarget(firstChapter) ==
    IF firstChapter.cfi # "" THEN Target("cfi", firstChapter.cfi, Undef, <<>>)
    ELSE IF getCfiFromHref(firstChapter.href) # NoTarget
         THEN getCfiFromHref(firstChapter.href)
    ELSE Target("raw", "", Undef, CleanHref(firstChapter.href))

\* autoNavigate without hasAutoNavigatedRef being set
autoNavigate_NoFlag(currentLoc, atStart) ==
    /\ sessionState = "Active"
    /\ tocData # <<>> /\ ~hasAutoNavigatedRef
    /\ isTOC(currentLoc)
    /\ atStart \/ (currentLoc.percentage # Undef /\ currentLoc.percentage < 10)
    /\ FirstChapter(tocData).some
    /\ \E threw \in BOOLEAN :
         goToLog' = Append(goToLog,
                           GoTo("skip", SkipTarget(FirstChapter(tocData)), threw))
    /\ UNCHANGED <<storeVars, variant, bookId, sessionState, ready, refVars,
                   savingInProgressRef, backPressed, lastObs, lastAccepted,
                   rendition, tocData, hasAutoNavigatedRef, restore, lastJump,
                   timerVars>>

\* the effect "auto-navigation from TOC page at book start" on the location
\* getCurrentLocation() gives it, when it gets as far as firstChapter: the ref
\* is set, then the one goToLocation, whose throw is caught
autoNavigate(currentLoc, atStart) ==
    /\ sessionState = "Active"
    /\ tocData # <<>> /\ ~hasAutoNavigatedRef
    /\ isTOC(currentLoc)
    /\ atStart \/ (currentLoc.percentage # Undef /\ currentLoc.percentage < 10)
    /\ FirstChapter(tocData).some
    /\ hasAutoNavigatedRef' = TRUE
    /\ \E threw \in BOOLEAN :
         goToLog' = Append(goToLog,
                           GoTo("skip", SkipTarget(FirstChapter(tocData)), threw))
    /\ UNCHANGED <<storeVars, variant, bookId, sessionState, ready, refVars,
                   savingInProgressRef, backPressed, lastObs, lastAccepted,
                   rendition, tocData, restore, lastJump,
                   timerVars>>

NextRestore ==
    \/ loadBook
    \/ handleReady
    \/ restoreFirstAttempt
    \/ restoreRecheck
    \/ restoreSecondAttempt
    \/ \E loc \in Snapshots : handleLocationChange(loc)
    \/ \E loc \in Snapshots : handleLocationChangeContent(loc)
    \/ \E i \in 1..MaxCalls : GetItem(i)
    \/ \E i \in 1..MaxCalls : SetItem(i)

\* the open reader session with the timers that restore the stored location;
\* the timers setTimeout started do fire
SpecRestore ==
    /\ Init
    /\ [][NextRestore]_vars
    /\ WF_vars(restoreFirstAttempt)
    /\ WF_vars(restoreRecheck)
    /\ WF_vars(restoreSecondAttempt)

InitSkip ==
    /\ bookLibrary = [present |-> TRUE, books |-> [b \in BookIds |-> NewBook]]
    /\ fileSystem = AllFiles
    /\ rendition \in Renditions \cup {BookRendition}
    /\ calls = <<>>
    /\ \E v \in {"screen", "content"} : InitSession(v, "Active")

NextSkip ==
    \/ \E toc \in TocLists : setTocData(toc)
    \/ \E loc \in Snapshots, atStart \in BOOLEAN : autoNavigate(loc, atStart)

\* the open reader session with its skip past the contents page
SpecSkip == InitSkip /\ [][NextSkip]_vars

\* ------------------------------------------------ progress of a snapshot
\* snapshots that reach every rule of the progress computation: end.percentage
\* in and out of range, end.index and end.location together, end.location
\* alone, the displayed page alone, a displayed page above the displayed total
CodecSnapshots ==
    { Location("cfi2", "cfi1", HrefChapter, 504, 2, Undef, 5, 10),
      Location("cfi4", "", HrefChapter, 1200, 4, Undef, 7, 10),
      Location("cfi5", "", HrefChapter, Undef, Undef, 2, 1, 3),
      Location("cfi6", "", HrefChapter, Undef, 1, 3, 6, 8),
      Location("cfi7", "", HrefChapter, Undef, Undef, Undef, 6, 8),
      Location("cfi8", "", HrefChapter, Undef, Undef, Undef, 9, 8) }

\* the reader opened on a book, Reader rendered
InitOpen ==
    /\ bookLibrary \in {[present |-> TRUE,
                         books |-> [b \in BookIds |-> IF b = BookId THEN r ELSE NewBook]] :
                        r \in {NewBook, ReadBook}}
    /\ fileSystem = AllFiles
    /\ rendition = BookRendition
    /\ calls = <<>>
    /\ \E v \in {"screen", "content"} : InitSession(v, "Active")

NextCodec ==
    \/ \E loc \in CodecSnapshots : handleLocationChange(loc)
    \/ \E loc \in CodecSnapshots : handleLocationChangeContent(loc)
    \/ setTotalBookLocations
    \/ \E i \in 1..MaxCalls : GetItem(i)
    \/ \E i \in 1..MaxCalls : SetItem(i)

\* the open reader handling snapshots of every shape
SpecCodec == InitOpen /\ [][NextCodec]_vars

\* -------------------------------------------------- failures of the store
\* await AsyncStorage.setItem(...) rejects for call i: nothing is stored and
\* the promise of the call rejects
SetItemRejects(i) ==
    /\ i \in DOMAIN calls
    /\ calls[i].pc = "setItem"
    /\ calls' = [calls EXCEPT ![i] = [@ EXCEPT !.pc = "rejected", !.lib = NoBooks]]
    /\ UNCHANGED <<bookLibrary, fileSystem>>
    /\ Settled(calls[i], calls'[i])

NextFailure ==
    \/ \E loc \in Snapshots : handleLocationChange(loc)
    \/ \E loc \in Snapshots : handleLocationChangeContent(loc)
    \/ handleLocationChangeThrows
    \/ \E i \in 1..MaxCalls : GetItem(i)
    \/ \E i \in 1..MaxCalls : SetItem(i)
    \/ \E i \in 1..MaxCalls : SetItemRejects(i)

\* the open reader with a store whose writes may fail and an engine whose
\* getCurrentLocation may throw
SpecFailure == InitOpen /\ [][NextFailure]_vars

\* ------------------------------------------------------- the ways out
\* an open book observed at the snapshots of CodecSnapshots and left by the
\* back button or by unmounting
NextExit ==
    \/ \E loc \in CodecSnapshots : handleLocationChange(loc)
    \/ \E loc \in CodecSnapshots : handleLocationChangeContent(loc)
    \/ setTotalBookLocations
    \/ goBack
    \/ Unmount
    \/ \E i \in 1..MaxCalls : GetItem(i)
    \/ \E i \in 1..MaxCalls : SetItem(i)

SpecExit == InitOpen /\ [][NextExit]_vars

\* ------------------------------------------------- the periodic re-check
\* the engine moves to another location and fires no location-change
\* notification (only while the bounds leave room for the location to be
\* handled)
Relocate(loc) ==
    /\ sessionState = "Active"
    /\ lastObs.n < MaxObs
    /\ Len(calls) < MaxCalls
    /\ loc # currentLocation
    /\ currentLocation' = loc
    /\ UNCHANGED <<storeVars, variant, bookId, navVars, intervalId, sessionState, ready,
                   refVars, savingInProgressRef, backPressed, lastObs, lastAccepted, autoPage, hero>>

\* the engine fires onLocationChange: handleLocationChange reads
\* getCurrentLocation()
onLocationChange ==
    /\ currentLocation.some
    /\ \/ handleLocationChange(currentLocation)
       \/ handleLocationChangeContent(currentLocation)

\* the callback of the 5 s interval of ReaderContent: handleLocationChange()
recheck ==
    /\ intervalId
    /\ currentLocation.some
    /\ handleLocationChangeContent(currentLocation)

NextRecheck ==
    \/ loadBook
    \/ \E loc \in Snapshots : Relocate(loc)
    \/ onLocationChange
    \/ recheck
    \/ Unmount
    \/ \E i \in 1..MaxCalls : GetItem(i)
    \/ \E i \in 1..MaxCalls : SetItem(i)

\* the reader with an engine whose notifications may fail to come; the
\* interval, while it runs, does fire
SpecRecheck == Init /\ [][NextRecheck]_vars /\ WF_vars(recheck)

\* --------------------------------------------------------------- teardown
\* the session with its restore timers, unmounted at any moment: no
\* clearTimeout is called on them
NextTeardown ==
    \/ NextRestore
    \/ Unmount

SpecTeardown == Init /\ [][NextTeardown]_vars

\* --------------------------------------------------------- auto page turn
Intervals == {5000, DefaultInterval}

\* what earlier sessions may have stored for the book
StoredPreferences ==
    { NoPreferences, Preferences("true", 5000), Preferences("true", 0),
      Preferences("false", DefaultInterval) }

Running(ap) == {k \in DOMAIN ap.timers : ap.timers[k].running}

clearInterval(timers, ref) ==
    IF ref = 0 THEN timers ELSE [timers EXCEPT ![ref].running = FALSE]

setInterval(timers, interval) ==
    Append(timers, [interval |-> interval, running |-> TRUE])

\* handleToggleAutoPageTurn(enabled, interval): clear the timer of the ref,
\* set the state, start a timer when enabled, save the preferences
handleToggleAutoPageTurn(ap, enabled, interval) ==
    LET cleared == clearInterval(ap.timers, ap.autoPageTimerRef)
        started == IF enabled THEN setInterval(cleared, interval) ELSE cleared
    IN  [ap EXCEPT !.timers = started,
                   !.autoPageTimerRef = IF enabled THEN Len(started) ELSE 0,
                   !.autoPageTurnEnabled = enabled,
                   !.autoPageInterval = interval,
                   !.stored = Preferences(IF enabled THEN "true" ELSE "false",
                                          interval)]

\* handleReady, "Apply auto page turn settings if saved", on the preferences
\* its await gave
applyAutoPageTurn(ap) ==
    LET p == ap.preferences
        start == p.autoPageTurn = "true" /\ p.autoPageInterval # 0
        started == setInterval(clearInterval(ap.timers, ap.autoPageTimerRef),
                               p.autoPageInterval)
    IN  IF p.autoPageTurn = "undefined" THEN ap
        ELSE [ap EXCEPT !.autoPageTurnEnabled = (p.autoPageTurn = "true"),
                        !.autoPageInterval =
                            IF p.autoPageInterval # 0 THEN p.autoPageInterval ELSE @,
                        !.timers = IF start THEN started ELSE @,
                        !.autoPageTimerRef = IF start THEN Len(started) ELSE @]

\* a step of the open reader of app/reader/[id].tsx that changes autoPage only
AutoPageStep(ap) ==
    /\ variant = "screen"
    /\ sessionState = "Active"
    /\ Len(ap.timers) <= MaxTimers
    /\ autoPage' = ap
    /\ UNCHANGED <<storeVars, variant, bookId, navVars, currentLocation, intervalId,
                   sessionState, ready, refVars, savingInProgressRef, backPressed,
                   lastObs, lastAccepted, hero>>

\* the switch of the settings panel
handleAutoPageTurnToggle ==
    AutoPageStep(handleToggleAutoPageTurn(
                     [autoPage EXCEPT !.panelAutoPageTurn = ~@],
                     ~autoPage.panelAutoPageTurn, autoPage.panelAutoPageInterval))

\* the interval controls of the settings panel
handleIntervalChange(interval) ==
    LET ap == [autoPage EXCEPT !.panelAutoPageInterval = interval]
    IN  AutoPageStep(IF autoPage.panelAutoPageTurn
                     THEN handleToggleAutoPageTurn(ap, TRUE, interval)
                     ELSE ap)

\* handleReady reaches `await getReaderPreferences(bookId)`: the stored
\* preferences are read
getReaderPreferences ==
    /\ autoPage.pc = "none"
    /\ AutoPageStep([autoPage EXCEPT !.pc = "await", !.preferences = autoPage.stored])

\* the await resolves and handleReady applies what was read
handleReadyPreferences ==
    /\ autoPage.pc = "await"
    /\ AutoPageStep(applyAutoPageTurn([autoPage EXCEPT !.pc = "done"]))

InitAutoPage ==
    /\ bookLibrary = [present |-> TRUE, books |-> [b \in BookIds |-> NewBook]]
    /\ fileSystem = AllFiles
    /\ rendition = BookRendition
    /\ calls = <<>>
    /\ InitReader("screen", "Active")
    /\ autoPage \in {[NoAutoPage EXCEPT !.stored = p] : p \in StoredPreferences}

NextAutoPage ==
    \/ handleAutoPageTurnToggle
    \/ \E interval \in Intervals : handleIntervalChange(interval)
    \/ getReaderPreferences
    \/ handleReadyPreferences

\* the open reader, its settings panel and the engine's ready callback
SpecAutoPage == InitAutoPage /\ [][NextAutoPage]_vars

\* ------------------------------------------------------ book details screen
\* BookHero on the progress prop: `progress > 1 ? progress :
\* Math.round(progress * 100)` (progress is an integer here, so the rounding
\* changes nothing), then isCompleted and hasStarted
BookHero(id, progress) ==
    LET progressPercent == IF progress > 1 THEN progress ELSE progress * 100
    IN  [shown |-> TRUE, bookId |-> id, progressPercent |-> progressPercent,
         isCompleted |-> progressPercent >= 100,
         hasStarted |-> progressPercent > 0]

\* BookDetailScreen renders BookHero with progress={book.readingProgress || 0}
BookDetailScreen(id) ==
    /\ bookLibrary.present
    /\ id \in DOMAIN bookLibrary.books
    /\ hero' = BookHero(id, bookLibrary.books[id].readingProgress)
    /\ UNCHANGED <<storeVars, variant, bookId, navVars, currentLocation, intervalId,
                   autoPage, sessionState, ready, refVars, savingInProgressRef,
                   backPressed, lastObs, lastAccepted>>

\* the values of readingProgress the reader can have stored
StoredProgress == 0..100

InitDetails ==
    /\ \E p \in StoredProgress :
         bookLibrary = [present |-> TRUE,
                        books |-> [b \in BookIds |->
                                     IF b = BookId
                                     THEN BookMetadata(p, 1, "cfi1", "none")
                                     ELSE NewBook]]
    /\ fileSystem = AllFiles
    /\ rendition = BookRendition
    /\ calls = <<>>
    /\ InitSession("screen", "None")

NextDetails == \E id \in BookIds : BookDetailScreen(id)

\* the book details screen opened on a stored record
SpecDetails == InitDetails /\ [][NextDetails]_vars

\* ------------------------------------------------------------------ claims
InFlight == {i \in DOMAIN calls : Pending(calls[i])}

AllSettled == InFlight = {}

\* the stored record of id holds the position that call c carried
HoldsPosition(id, c) ==
    /\ bookLibrary.present
    /\ id \in DOMAIN bookLibrary.books
    /\ bookLibrary.books[id].cfi = c.cfi
    /\ bookLibrary.books[id].readingProgress = c.progress
    /\ bookLibrary.books[id].currentPage = c.page

\* C1: two updateReadingProgress calls that overlap are serialized, so once both
\* have completed the stored collection reflects both updates: here, two
\* calls that each wrote the record of a different book.
C1_NoLostUpdate ==
    \A i, j \in DOMAIN calls :
        ( /\ i # j
          /\ calls[i].op = "position" /\ calls[j].op = "position"
          /\ calls[i].id # calls[j].id
          /\ calls[i].wrote /\ calls[j].wrote
          /\ AllSettled )
        => HoldsPosition(calls[i].id, calls[i]) /\ HoldsPosition(calls[j].id, calls[j])

\* C2: one updateBookCategories call and one updateReadingProgress call on the
\* same record, interleaved anyhow: once both have completed (each having
\* written), the record holds the new categories and the new position.
C2_CategoriesAndPositionKept ==
    \A i, j \in DOMAIN calls :
        ( /\ Len(calls) = 2
          /\ calls[i].op = "categories" /\ calls[j].op = "position"
          /\ calls[i].id = calls[j].id
          /\ calls[i].wrote /\ calls[j].wrote
          /\ AllSettled )
        => /\ HoldsPosition(calls[j].id, calls[j])
           /\ bookLibrary.books[calls[i].id].categories = calls[i].cats

\* C3: at most one updateReadingProgress call of the session is in flight,
\* whichever of handleLocationChange, goBack and the cleanup started it.
C3_OneSaveInFlight == Cardinality(InFlight) <= 1

\* C4: a teardown with a last accepted progress that differs from the last
\* persisted one issues one updateReadingProgress call, carrying the locator
\* and progress of the last accepted observation.
C4_TeardownSavesLastAccepted ==
    [][ ( /\ sessionState = "Active" /\ sessionState' = "Unmounted"
          /\ lastAccepted.n > 0
          /\ readingProgress = lastAccepted.progress
          /\ readingProgress # lastSavedProgressRef )
        => /\ Len(calls') = Len(calls) + 1
           /\ calls'[Len(calls')].cfi = lastAccepted.cfi
           /\ calls'[Len(calls')].progress = lastAccepted.progress ]_vars

\* C5: after the teardown, once every call the session issued has completed
\* and written, the stored locator is the locator of the last accepted
\* observation.
C5_StoredLocatorIsLastAccepted ==
    ( /\ sessionState = "Unmounted"
      /\ lastAccepted.n > 0
      /\ calls # <<>>
      /\ \A i \in DOMAIN calls : calls[i].pc = "done" /\ calls[i].wrote )
    => StoredMeta.cfi = lastAccepted.cfi

\* C6: the final flush is applied after every earlier write of the session:
\* once all calls have completed, the final flush having written, the stored
\* position is the one the final flush carried.
C6_FinalFlushWins ==
    ( /\ sessionState = "Unmounted"
      /\ AllSettled
      /\ calls # <<>>
      /\ calls[Len(calls)].origin = "flush"
      /\ calls[Len(calls)].wrote )
    => HoldsPosition(BookId, calls[Len(calls)])

\* C7: a front-matter observation changes neither the session's readingProgress
\* nor, through any write made for it, the stored readingProgress.
C7_FrontMatterChangesNothing ==
    [][ /\ (lastObs'.n = lastObs.n + 1 /\ lastObs'.toc)
            => readingProgress' = readingProgress
        /\ \A i \in DOMAIN calls :
             (calls[i].toc /\ calls[i].pc = "setItem" /\ calls'[i].pc = "done")
             => StoredMeta'.readingProgress = StoredMeta.readingProgress ]_vars

\* C8: no write made for an observation outside the front matter takes the
\* stored readingProgress from a positive value to 0.
C8_StoredProgressNotResetToZero ==
    [][ \A i \in DOMAIN calls :
          ( /\ ~calls[i].toc
            /\ calls[i].pc = "setItem" /\ calls'[i].pc = "done"
            /\ StoredMeta.readingProgress > 0 )
          => StoredMeta'.readingProgress > 0 ]_vars

C10_DuplicateStartsNoWrite ==
    [][ ( /\ lastObs.n > 0 /\ lastObs'.n = lastObs.n + 1
          /\ lastObs'.cfi # "" /\ lastObs'.cfi = lastObs.cfi
          /\ lastObs'.progress = lastObs.progress
          /\ ~lastObs.toc /\ ~lastObs'.toc )
        => ~lastObs'.accepted /\ ~lastObs'.wrote ]_vars

\* C11: handleLocationChange starts an updateReadingProgress call only when the
\* progress it accepted differs by at least 1 from the last saved progress and
\* no save is in progress (so a new locator with the last saved progress
\* starts no call).
C11_SaveOnlyBeyondThreshold ==
    [][ (lastObs'.n = lastObs.n + 1 /\ lastObs'.wrote)
        => /\ Abs(lastObs'.progress - lastSavedProgressRef) >= 1
           /\ ~savingInProgressRef ]_vars

\* C12: every updateReadingProgress call of the session carries the id of the
\* book whose rendering produced its locator, which is the book loadBook
\* opened (BookId): the Reader renders no other file.
C12_LocatorPairedWithItsBook ==
    \A i \in DOMAIN calls :
        (calls[i].op = "position" /\ calls[i].cfi # "") => calls[i].id = BookId

\* C13: an updateReadingProgress call made when no collection is stored, or
\* with an id that matches no record, completes without an error (its promise
\* is not rejected); such a call writes nothing.
C13_MissingRecordIsSilent ==
    \A i \in DOMAIN calls :
        calls[i].op = "position"
        => /\ calls[i].pc # "rejected"
           /\ (calls[i].id \notin BookIds \/ ~bookLibrary.present) => ~calls[i].wrote

\* C14: a deleteBook call that ran alone and has returned: it returned true
\* (it reached its setItem) exactly when a record with its id existed; after
\* true the collection holds no such record, the record's file and cover are
\* no longer in the file system, and the other records are as imported; after
\* false the collection still holds every imported record.
C14_DeleteContract ==
    ( /\ Len(calls) = 1
      /\ calls[1].op = "delete"
      /\ calls[1].pc = "done" )
    => LET id == calls[1].id
       IN  /\ calls[1].wrote <=> (bookLibrary.present /\ id \in BookIds)
           /\ calls[1].wrote
              => /\ id \notin DOMAIN bookLibrary.books
                 /\ FilePath(id) \notin fileSystem
                 /\ CoverPath(id) \notin fileSystem
                 /\ \A b \in BookIds \ {id} :
                      b \in DOMAIN bookLibrary.books /\ bookLibrary.books[b] = NewBook
           /\ (~calls[1].wrote /\ bookLibrary.present)
              => bookLibrary.books = [b \in BookIds |-> NewBook]

\* C15: once a deleteBook call has returned true, the record it deleted is not
\* in the stored collection again, whatever updateReadingProgress or
\* updateBookCategories calls ran before or during it.
C15_DeletedRecordStaysDeleted ==
    \A i \in DOMAIN calls :
        ( /\ calls[i].op = "delete" /\ calls[i].pc = "done" /\ calls[i].wrote
          /\ \A j \in DOMAIN calls \ {i} : calls[j].op \in {"position", "categories"} )
        => calls[i].id \notin DOMAIN bookLibrary.books

\* the positions in goToLog of the goToLocation calls of the restore
RestoreGoTos == {i \in DOMAIN goToLog : goToLog[i].by = "restore"}

\* what holds of the restore in every state: at most two attempts, each with
\* the stored locator, a later one only after an earlier one threw, none
\* without a timer, and one as soon as the first timer has fired
RestoreAttempts ==
    /\ Cardinality(RestoreGoTos) <= 2
    /\ \A i \in RestoreGoTos :
          /\ restore.cfi # ""
          /\ goToLog[i].target = Target("cfi", restore.cfi, Undef, <<>>)
    /\ \A i, j \in RestoreGoTos : i < j => goToLog[i].threw
    /\ restore.pc = "none" => RestoreGoTos = {}
    /\ restore.pc \in {"recheck", "second", "done"} => RestoreGoTos # {}

\* C16: with a non-empty stored locator goTo(storedLocator) is attempted at
\* least once and at most twice, the second attempt only after the first one
\* threw; no attempt, thrown or not, changes the state of the session or puts
\* it in Error; with an empty stored locator handleReady starts no timer and
\* no restore goTo is issued.
C16_RestoreOnceOrTwice ==
    /\ []RestoreAttempts
    /\ [][ (~ready /\ ready')
           => (restore'.pc = "first") = (StoredMeta.cfi # "") ]_vars
    /\ [][ (restore.pc # "none" /\ restore' # restore)
           => sessionState' = sessionState /\ sessionState' # "Error" ]_vars
    /\ (restore.pc = "first") ~> (RestoreGoTos # {})

\* both attempts threw, and an observation handled after the second one was
\* accepted in the session, which is still active
C16_Witness ==
    /\ restore.pc = "done"
    /\ Cardinality(RestoreGoTos) = 2
    /\ \A i \in RestoreGoTos : goToLog[i].threw
    /\ sessionState = "Active"
    /\ lastObs.n > restore.obsAt
    /\ lastObs.accepted

\* C17: in a session the skip past the contents page calls goTo at most once,
\* however often the table of contents or the location changes afterwards, and
\* also when the location is still a contents page at the start after it.
C17_SkipAtMostOnce ==
    Cardinality({i \in DOMAIN goToLog : goToLog[i].by = "skip"}) <= 1

\* the skip was made to a chapter that had no locator, and the table of
\* contents was replaced afterwards by one whose first chapter has a locator
C17_Witness ==
    /\ hasAutoNavigatedRef
    /\ \E i \in DOMAIN goToLog :
          goToLog[i].by = "skip" /\ goToLog[i].target.kind # "cfi"
    /\ tocData # <<>>
    /\ FirstChapter(tocData).some
    /\ FirstChapter(tocData).cfi # ""

\* C18: when an entry without a locator has a documentReference that is the
\* href of exactly one spine item, the one at index i, the resolver calls goTo
\* with the locator synthesized for index i, epubcfi(/6/(2*i+2)!), whatever
\* else the spine holds. (k counts from 1, so i is k - 1.)
C18_SynthesizedForItsSpineIndex ==
    \A k \in DOMAIN rendition.spine :
       ( /\ rendition.present
         /\ lastJump.section.some
         /\ lastJump.section.cfi = ""
         /\ lastJump.section.href = rendition.spine[k]
         /\ \A l \in DOMAIN rendition.spine :
               rendition.spine[l] = rendition.spine[k] => l = k )
       => lastJump.targets = <<Target("synth", "", 2 * (k - 1) + 2, <<>>)>>

\* C19: when an entry has only a documentReference, and the spine item at
\* index i matches it, a locator the resolver synthesizes for the entry
\* encodes a spine index j <= i.
C19_NoOvershoot ==
    \A k \in DOMAIN rendition.spine :
       ( /\ rendition.present
         /\ lastJump.section.some
         /\ lastJump.section.cfi = ""
         /\ lastJump.section.id = <<>>
         /\ lastJump.section.subitems = <<>>
         /\ lastJump.section.href # <<>>
         /\ LET h == CleanHref(lastJump.section.href)
            IN  rendition.spine[k] = h \/ Includes(h, rendition.spine[k])
         /\ lastJump.targets # <<>>
         /\ lastJump.targets[1].kind = "synth" )
       => lastJump.targets[1].index <= 2 * (k - 1) + 2

\* the entry's documentReference is the href of the second spine item, and the
\* locator synthesized for it is that item's
C19_Witness ==
    /\ rendition.present
    /\ Len(rendition.spine) >= 2
    /\ lastJump.section.some
    /\ lastJump.section.cfi = ""
    /\ lastJump.section.id = <<>>
    /\ lastJump.section.subitems = <<>>
    /\ lastJump.section.href = rendition.spine[2]
    /\ lastJump.targets = <<Target("synth", "", 4, <<>>)>>

\* what the resolver may make of a reference h of an entry: h itself when it
\* holds "epubcfi(", else the locators synthesized for the spine items that
\* match h without its leading "/"
Resolved(h) ==
    IF h = <<>> THEN {}
    ELSE IF Includes(h, <<"epubcfi(">>) THEN {Target("asis", "", Undef, h)}
    ELSE IF ~rendition.present THEN {}
    ELSE {Target("synth", "", 2 * (k - 1) + 2, <<>>) :
            k \in {l \in DOMAIN rendition.spine :
                     \/ rendition.spine[l] = CleanHref(h)
                     \/ Includes(CleanHref(h), rendition.spine[l])}}

\* the first subitem of the latest entry given to navigateToTocSection
FirstChild ==
    IF lastJump.section.subitems # <<>> THEN lastJump.section.subitems[1] ELSE NoSection

\* C20 as stated: a jump on an entry issues at most one goTo, whose argument is
\* the first that exists of the entry's locator, the locator synthesized from
\* its documentReference, the first child's locator, the locator synthesized
\* from the first child's documentReference, the raw documentReference, the
\* raw fallbackId; with none of them no goTo is issued, and no error is raised.
C20_FirstThatExistsRaw ==
    LET e == lastJump.section
        t == lastJump.targets
        synth(h) == {x \in Resolved(h) : x.kind = "synth"}
    IN  e.some =>
          /\ Len(t) <= 1
          /\ lastJump.returned = ~lastJump.threw
          /\ IF e.cfi # "" THEN t = <<Target("cfi", e.cfi, Undef, <<>>)>>
             ELSE IF synth(e.href) # {} THEN Len(t) = 1 /\ t[1] \in synth(e.href)
             ELSE IF FirstChild.cfi # ""
                  THEN t = <<Target("cfi", FirstChild.cfi, Undef, <<>>)>>
             ELSE IF synth(FirstChild.href) # {}
                  THEN Len(t) = 1 /\ t[1] \in synth(FirstChild.href)
             ELSE IF e.href # <<>>
                  THEN Len(t) = 1 /\ t[1].kind \in {"raw", "asis"} /\ t[1].href = e.href
             ELSE IF e.id # <<>>
                  THEN Len(t) = 1 /\ t[1].kind = "raw" /\ t[1].href = e.id
             ELSE t = <<>>

\* C20 as amended: a jump on an entry issues at most one goTo and raises no
\* error; its argument is the first that exists of the entry's locator; its
\* documentReference as it is when that holds "epubcfi(", else the locator
\* synthesized from it; the first child's locator; the first child's
\* documentReference resolved the same way; the entry's documentReference
\* without its leading "/"; its fallbackId without its leading "/". With none
\* of them no goTo is issued.
C20_FirstThatExists ==
    LET e == lastJump.section
        t == lastJump.targets
    IN  e.some =>
          /\ Len(t) <= 1
          /\ lastJump.returned = ~lastJump.threw
          /\ IF e.cfi # "" THEN t = <<Target("cfi", e.cfi, Undef, <<>>)>>
             ELSE IF Resolved(e.href) # {} THEN Len(t) = 1 /\ t[1] \in Resolved(e.href)
             ELSE IF FirstChild.cfi # ""
                  THEN t = <<Target("cfi", FirstChild.cfi, Undef, <<>>)>>
             ELSE IF Resolved(FirstChild.href) # {}
                  THEN Len(t) = 1 /\ t[1] \in Resolved(FirstChild.href)
             ELSE IF e.href # <<>>
                  THEN t = <<Target("raw", "", Undef, CleanHref(e.href))>>
             ELSE IF e.id # <<>>
                  THEN t = <<Target("raw", "", Undef, CleanHref(e.id))>>
             ELSE t = <<>>

\* an entry whose documentReference "/a" matches no spine item and whose first
\* child gives nothing was given, and goTo was called with "a"
C20_Witness ==
    /\ lastJump.section.some
    /\ lastJump.section.cfi = ""
    /\ lastJump.section.href = <<"/", "a">>
    /\ Resolved(lastJump.section.href) = {}
    /\ FirstChild.some /\ FirstChild.cfi = "" /\ Resolved(FirstChild.href) = {}
    /\ lastJump.targets = <<Target("raw", "", Undef, <<"a">>)>>

\* the progress the first applicable rule gives a snapshot, in the order
\* end.percentage, end.index over total, end.location over total, displayed
\* page over displayed total when that is above 4, else 0
FirstRule(loc, total) ==
    CASE loc.percentage # Undef -> RoundPercentage(loc.percentage)
      [] loc.percentage = Undef /\ loc.index # Undef /\ total > 0
           -> RoundRatio(loc.index, total)
      [] loc.percentage = Undef /\ loc.index = Undef /\ loc.location # Undef /\ total > 0
           -> RoundRatio(loc.location, total)
      [] OTHER -> IF loc.page # Undef /\ loc.total # Undef /\ loc.total > 4
                  THEN RoundRatio(loc.page, loc.total) ELSE 0

\* the handler ran on loc and got as far as computing a progress for it
Computes(loc) ==
    /\ handleLocationChange(loc) \/ handleLocationChangeContent(loc)
    /\ Cfi(loc) # "" /\ ~isTOC(loc)
    /\ variant = "content" => lastLocationRef # Cfi(loc)

Clamp(x) == IF x < 0 THEN 0 ELSE IF x > 100 THEN 100 ELSE x

\* C21 as stated: the progress of an observation is what the first applicable
\* rule gives, clamped to 0..100.
C21_FirstRuleClamped ==
    [][ \A loc \in CodecSnapshots :
          Computes(loc) =>
            lastObs'.progress = Clamp(FirstRule(loc, totalBookLocations)) ]_vars

\* C21 as amended: the progress of an observation is what the first applicable
\* rule gives; it is not clamped: when it is outside 0..100 the observation is
\* dropped, and an accepted one becomes readingProgress as it is.
C21_FirstRuleOrDropped ==
    [][ \A loc \in CodecSnapshots :
          Computes(loc) =>
            LET p == FirstRule(loc, totalBookLocations)
            IN  /\ lastObs'.progress = p
                /\ lastObs'.cfi = Cfi(loc)
                /\ (p < 0 \/ p > 100) => ~lastObs'.accepted
                /\ lastObs'.accepted => readingProgress' = p ]_vars

\* an observation whose rule gave more than 100 was dropped, and one whose
\* progress came from end.location was accepted before it
C21_Witness ==
    /\ lastObs.n > 0
    /\ lastObs.progress > 100
    /\ ~lastObs.accepted
    /\ lastAccepted.cfi = "cfi5"
    /\ lastAccepted.progress = 50

\* the latest call the handler started has been rejected
LastSaveFailed ==
    LET h == {i \in DOMAIN calls : calls[i].origin = "handler"}
    IN  h # {} /\ calls[CHOOSE i \in h : \A j \in h : j <= i].pc = "rejected"

\* C22: a save that fails resets savingInProgressRef when it completes, and
\* after a failed save, or after an observation during which the engine call
\* threw, the next observation that is accepted starts a new
\* updateReadingProgress call.
C22_FailureDoesNotBlock ==
    /\ [][ \A i \in DOMAIN calls :
             (calls[i].origin = "handler" /\ Pending(calls[i])
              /\ calls'[i].pc = "rejected")
             => ~savingInProgressRef' ]_vars
    /\ [][ ((LastSaveFailed \/ lastObs.threw)
            /\ lastObs'.n = lastObs.n + 1 /\ lastObs'.accepted)
           => /\ lastObs'.wrote
              /\ Len(calls') = Len(calls) + 1
              /\ calls'[Len(calls')].origin = "handler"
              /\ calls'[Len(calls')].pc = "getItem" ]_vars

\* the save of one observation failed at its write, and a later observation
\* was accepted and started the call that is now in flight
C22_Witness ==
    /\ Len(calls) = 2
    /\ calls[1].origin = "handler" /\ calls[1].pc = "rejected"
    /\ calls[2].origin = "handler" /\ Pending(calls[2])
    /\ lastObs.accepted /\ lastObs.wrote
    /\ savingInProgressRef

\* the session is active and the engine is at a location that the latest
\* observation handled was not made at
Unseen ==
    /\ sessionState = "Active"
    /\ currentLocation.some
    /\ lastObs.n = 0 \/ lastObs.cfi # Cfi(currentLocation)

\* C23: while the session is active, a location the engine moved to without a
\* notification is eventually handled by handleLocationChange, the re-check
\* interval being fair; and no re-check interval runs once the session is
\* unmounted.
C23_RecheckFeedsLocation ==
    /\ Unseen ~> ~Unseen
    /\ [](sessionState = "Unmounted" => ~intervalId)

\* C24: an updateReadingProgress call on an existing record, completing with no
\* other call in flight, leaves the record holding the locator, progress and
\* page it was given, whatever the page stored before (backward navigation,
\* same page).
C24_UpsertStoresPosition ==
    [][ \A i \in DOMAIN calls :
          ( /\ calls[i].op = "position"
            /\ InFlight = {i}
            /\ ~Pending(calls'[i])
            /\ bookLibrary.present
            /\ calls[i].id \in DOMAIN bookLibrary.books )
          => HoldsPosition(calls[i].id, calls[i])' ]_vars

\* the observation just handled was not accepted for one of: no locator, front
\* matter, progress out of range, progress 0 after a positive one
Unaccepted ==
    /\ lastObs'.n = lastObs.n + 1
    /\ ~lastObs'.accepted
    /\ ~lastObs'.threw
    /\ \/ lastObs'.cfi = ""
       \/ lastObs'.toc
       \/ lastObs'.progress < 0 \/ lastObs'.progress > 100
       \/ lastObs'.progress = 0 /\ readingProgress > 0

\* C25: an observation that is not accepted changes neither the last locator,
\* nor the accepted progress, nor the call the cleanup at unmount would make.
C25_UnacceptedChangesNothing ==
    [][ Unaccepted =>
          /\ lastLocationRef' = lastLocationRef
          /\ readingProgress' = readingProgress
          /\ ExitCalls("flush", latestLocationRef', totalBookLocations')
               = ExitCalls("flush", latestLocationRef, totalBookLocations) ]_vars

\* C26: the readingProgress stored in every record is in 0..100, whatever
\* snapshots the engine produced and whichever of the handler, goBack and the
\* cleanup at unmount wrote it.
C26_StoredProgressInRange ==
    bookLibrary.present =>
        \A b \in DOMAIN bookLibrary.books :
            bookLibrary.books[b].readingProgress \in 0..100

\* C27: the progress that goBack and the cleanup of the final-position effect
\* pass to updateReadingProgress for the snapshot in latestLocationRef is the
\* progress handleLocationChange computes for that snapshot with the same
\* totalBookLocations.
C27_SameProgressOnEveryPath ==
    [][ \A i \in DOMAIN calls' \ DOMAIN calls :
          calls'[i].origin \in {"goBack", "flush", "rerun"}
          => calls'[i].progress
               = LocationProgress(latestLocationRef, totalBookLocations) ]_vars

\* C28: once the session is unmounted, no goToLocation is called (the restore
\* timers were cancelled) and no updateReadingProgress call is started: the
\* call of the cleanup at unmount is the last one.
C28_NothingAfterUnmount ==
    [][ sessionState = "Unmounted"
        => /\ goToLog' = goToLog
           /\ Len(calls') = Len(calls) ]_vars

\* C29: at most one auto-page-turn timer runs; it runs with the interval set
\* last; none runs when auto page turn was last set to disabled.
C29_OneTimerLatestInterval ==
    /\ Cardinality(Running(autoPage)) <= 1
    /\ \A k \in Running(autoPage) :
          autoPage.timers[k].interval = autoPage.autoPageInterval
    /\ ~autoPage.autoPageTurnEnabled => Running(autoPage) = {}

\* C30: for a stored readingProgress p in 0..100, BookHero shows p percent and
\* marks the book completed only when p is 100.
C30_HeroShowsStoredPercent ==
    hero.shown =>
        LET p == bookLibrary.books[hero.bookId].readingProgress
        IN  p \in 0..100 =>
               /\ hero.progressPercent = p
               /\ hero.isCompleted => p = 100

====
